---- MODULE Spec2Model ----
(***************************************************************************)
(* Custodial exchange backend (src/backend/main.py, database.py).          *)
(*                                                                         *)
(* Every handler is an async function: it may be suspended at each awaited *)
(* database call, and other requests run in between.  A handler is         *)
(* therefore modelled as a sequence of atomic steps, one per awaited       *)
(* database call (the local computation before a call belongs to the step  *)
(* of that call).  The arrival of a request, its authentication and its    *)
(* input validation touch no shared state and are merged with the          *)
(* handler's first database call.                                          *)
(*                                                                         *)
(* A collection is the sequence of its documents in insertion order; a     *)
(* document's _id is its position.  The store is taken to identify a       *)
(* document by the string get_document returns for its _id, so a lookup or *)
(* an update by that string reaches the document it came from.  The        *)
(* created_at and updated_at stamps are left out.  Amounts are integers    *)
(* (the code's floats, without rounding).                                  *)
(***************************************************************************)
EXTENDS Integers, Sequences, FiniteSets, TLC

\* ------------------------------------------------------------ bounds
\* Requests issued in one behaviour.
MaxReq == 3
\* Requests issued in one behaviour of the whole system.
MaxRace == 2
\* Requests issued in one behaviour of the peer-to-peer specification.
MaxP2P == 4
\* Requests issued in one behaviour of a sequential scenario.
MaxSeq == 5
\* Balance of every wallet provisioned before the behaviour starts.
InitBal == 10
\* Years the clock may advance.
MaxYears == 1

\* Request slots: requests in flight at the same time.
Procs == {1, 2}
\* Request amounts: negative, zero and positive.
Amounts == {-10, 0, 10, 20}

\* ------------------------------------------------------------ constants
ASSETS == <<"BTC", "ETH", "USDT">>
PAIRS == <<"BTC-USDT", "ETH-USDT">>

AssetSet == {ASSETS[i] : i \in 1..Len(ASSETS)}
PairSet == {PAIRS[i] : i \in 1..Len(PAIRS)}

\* pair.split("-")
PairBase(pair) == IF pair = "BTC-USDT" THEN "BTC" ELSE "ETH"
PairQuote(pair) == "USDT"

VARIABLES
  user,              \* collection "user"
  wallet,            \* collection "wallet"
  deposit,           \* collection "deposit"
  withdrawal,        \* collection "withdrawal"
  order,             \* collection "order"
  p2poffer,          \* collection "p2poffer"
  p2ptrade,          \* collection "p2ptrade"
  earnproduct,       \* collection "earnproduct"
  earnsubscription,  \* collection "earnsubscription"
  now,               \* datetime.utcnow(), in clock ticks (DayTicks to a day)
  req,               \* per request slot: position in the handler and its locals
  nreq               \* requests issued so far

db == <<user, wallet, deposit, withdrawal, order, p2poffer, p2ptrade,
        earnproduct, earnsubscription>>
vars == <<user, wallet, deposit, withdrawal, order, p2poffer, p2ptrade,
          earnproduct, earnsubscription, now, req, nreq>>

\* ------------------------------------------------------------ database.py
Min(S) == CHOOSE x \in S : \A y \in S : x <= y

\* A filter is a dict of field values; "_id" names the document's position.
matches(i, doc, filter_dict) ==
  \A f \in DOMAIN filter_dict :
    IF f = "_id" THEN i = filter_dict[f] ELSE doc[f] = filter_dict[f]

\* get_document: the _id of the first document passing the filter, 0 for None.
get_document(coll, filter_dict) ==
  LET S == {i \in 1..Len(coll) : matches(i, coll[i], filter_dict)}
  IN  IF S = {} THEN 0 ELSE Min(S)

\* create_document: insert_one appends; the new _id is the last position.
create_document(coll, data) == Append(coll, data)

\* update_document: $set of the given field on the document with that _id.
update_balance(coll, id, bal) == [coll EXCEPT ![id].balance = bal]
update_status(coll, id, st) == [coll EXCEPT ![id].status = st]

get_wallet(u, a) == get_document(wallet, [user_id |-> u, asset |-> a])
get_by_id(coll, id) == get_document(coll, [_id |-> id])

\* ------------------------------------------------------------ requests
NoReq == [pc |-> "idle", op |-> "", resp |-> "", au |-> 0, adm |-> FALSE,
          id |-> 0, asset |-> "", amount |-> 0, w |-> 0, bal |-> 0,
          asset2 |-> "", amount2 |-> 0, seller |-> 0, buyer |-> 0,
          price |-> 0, side |-> "", pair |-> "", email |-> "", k |-> 0,
          product |-> 0, apy |-> 0, start |-> 0, out |-> << >>, feed |-> << >>]

\* authenticate: the tokens login issues, one per user document.
Tokens == {[id |-> i, is_admin |-> user[i].is_admin] : i \in 1..Len(user)}

Begin(op, au) ==
  [NoReq EXCEPT !.op = op, !.au = au.id, !.adm = au.is_admin]

\* The handler returns or raises: the response is what the client receives.
Finish(r, resp) == [r EXCEPT !.pc = "done", !.resp = resp]

\* A request is served by the lowest free slot (the slots are interchangeable).
CanStart(p) ==
  /\ req[p].pc = "idle"
  /\ \A q \in Procs : req[q].pc = "idle" => p <= q

\* The response has been sent; the slot serves the next request.
Reply(p) ==
  /\ req[p].pc = "done"
  /\ req' = [req EXCEPT ![p] = NoReq]
  /\ UNCHANGED <<db, now, nreq>>

\* ------------------------------------------------------------ deposit
deposit_start(p, au, asset, amount) ==
  /\ CanStart(p)
  /\ nreq' = nreq + 1
  /\ IF asset \notin AssetSet
     THEN /\ req' = [req EXCEPT ![p] = Finish(Begin("deposit", au), "400 Unsupported asset")]
          /\ UNCHANGED deposit
     ELSE /\ deposit' = create_document(deposit,
                [user_id |-> au.id, asset |-> asset, amount |-> amount, status |-> "completed"])
          /\ req' = [req EXCEPT ![p] =
                [Begin("deposit", au) EXCEPT !.pc = "dep_get", !.asset = asset,
                                            !.amount = amount, !.id = Len(deposit) + 1]]
  /\ UNCHANGED <<user, wallet, withdrawal, order, p2poffer, p2ptrade,
                 earnproduct, earnsubscription, now>>

deposit_get(p) ==
  /\ req[p].pc = "dep_get"
  /\ LET w == get_wallet(req[p].au, req[p].asset)
     IN  req' = [req EXCEPT ![p] =
            IF w = 0 THEN Finish(@, "500")
            ELSE [@ EXCEPT !.pc = "dep_upd", !.w = w, !.bal = wallet[w].balance]]
  /\ UNCHANGED <<db, now, nreq>>

deposit_upd(p) ==
  /\ req[p].pc = "dep_upd"
  /\ wallet' = update_balance(wallet, req[p].w, req[p].bal + req[p].amount)
  /\ req' = [req EXCEPT ![p] = Finish(@, "200")]
  /\ UNCHANGED <<user, deposit, withdrawal, order, p2poffer, p2ptrade,
                 earnproduct, earnsubscription, now, nreq>>

\* ------------------------------------------------------------ withdraw
withdraw_start(p, au, asset, amount) ==
  /\ CanStart(p)
  /\ nreq' = nreq + 1
  /\ LET w == get_wallet(au.id, asset)
         r == [Begin("withdraw", au) EXCEPT !.asset = asset, !.amount = amount]
     IN  req' = [req EXCEPT ![p] =
            IF asset \notin AssetSet THEN Finish(r, "400 Unsupported asset")
            ELSE IF w = 0 \/ wallet[w].balance < amount
                 THEN Finish(r, "400 Insufficient balance")
                 ELSE [r EXCEPT !.pc = "wd_create", !.w = w, !.bal = wallet[w].balance]]
  /\ UNCHANGED <<db, now>>

\* Mutant: the funds are debited when the withdrawal is requested.
withdraw_create_debits(p) ==
  /\ req[p].pc = "wd_create"
  /\ withdrawal' = create_document(withdrawal,
        [user_id |-> req[p].au, asset |-> req[p].asset, amount |-> req[p].amount,
         status |-> "pending"])
  /\ wallet' = update_balance(wallet, req[p].w, req[p].bal - req[p].amount)
  /\ req' = [req EXCEPT ![p] = Finish([@ EXCEPT !.id = Len(withdrawal) + 1], "200 pending")]
  /\ UNCHANGED <<user, deposit, order, p2poffer, p2ptrade,
                 earnproduct, earnsubscription, now, nreq>>

withdraw_create(p) ==
  /\ req[p].pc = "wd_create"
  /\ withdrawal' = create_document(withdrawal,
        [user_id |-> req[p].au, asset |-> req[p].asset, amount |-> req[p].amount,
         status |-> "pending"])
  /\ req' = [req EXCEPT ![p] = Finish([@ EXCEPT !.id = Len(withdrawal) + 1], "200 pending")]
  /\ UNCHANGED <<user, wallet, deposit, order, p2poffer, p2ptrade,
                 earnproduct, earnsubscription, now, nreq>>

\* ------------------------------------------------------------ approve_withdrawal
approve_start(p, au, withdrawal_id, approve) ==
  /\ CanStart(p)
  /\ nreq' = nreq + 1
  /\ LET wd == get_by_id(withdrawal, withdrawal_id)
         r == [Begin("approve", au) EXCEPT !.id = withdrawal_id]
     IN  req' = [req EXCEPT ![p] =
            IF ~au.is_admin THEN Finish(r, "403 Admin only")
            ELSE IF wd = 0 THEN Finish(r, "404 Not found")
            ELSE IF approve
                 THEN [r EXCEPT !.pc = "ap_get", !.seller = withdrawal[wd].user_id,
                                !.asset = withdrawal[wd].asset,
                                !.amount = withdrawal[wd].amount]
                 ELSE [r EXCEPT !.pc = "ap_reject"]]
  /\ UNCHANGED <<db, now>>

\* Mutant: a withdrawal that cannot be paid is rejected automatically.
approve_get_rejects(p) ==
  /\ req[p].pc = "ap_get"
  /\ LET w == get_wallet(req[p].seller, req[p].asset)
         short == w # 0 /\ wallet[w].balance < req[p].amount
     IN  /\ req' = [req EXCEPT ![p] =
               IF w = 0 THEN Finish(@, "500")
               ELSE IF short
                    THEN Finish(@, "400 Insufficient funds at approval")
                    ELSE [@ EXCEPT !.pc = "ap_debit", !.w = w, !.bal = wallet[w].balance]]
         /\ withdrawal' = IF short THEN update_status(withdrawal, req[p].id, "rejected")
                          ELSE withdrawal
  /\ UNCHANGED <<user, wallet, deposit, order, p2poffer, p2ptrade,
                 earnproduct, earnsubscription, now, nreq>>

approve_get(p) ==
  /\ req[p].pc = "ap_get"
  /\ LET w == get_wallet(req[p].seller, req[p].asset)
     IN  req' = [req EXCEPT ![p] =
            IF w = 0 THEN Finish(@, "500")
            ELSE IF wallet[w].balance < req[p].amount
                 THEN Finish(@, "400 Insufficient funds at approval")
                 ELSE [@ EXCEPT !.pc = "ap_debit", !.w = w, !.bal = wallet[w].balance]]
  /\ UNCHANGED <<db, now, nreq>>

approve_debit(p) ==
  /\ req[p].pc = "ap_debit"
  /\ wallet' = update_balance(wallet, req[p].w, req[p].bal - req[p].amount)
  /\ req' = [req EXCEPT ![p].pc = "ap_sent"]
  /\ UNCHANGED <<user, deposit, withdrawal, order, p2poffer, p2ptrade,
                 earnproduct, earnsubscription, now, nreq>>

\* Mutant: the withdrawal is marked approved, not sent.
approve_sent_approved(p) ==
  /\ req[p].pc = "ap_sent"
  /\ withdrawal' = update_status(withdrawal, req[p].id, "approved")
  /\ req' = [req EXCEPT ![p] = Finish(@, "200")]
  /\ UNCHANGED <<user, wallet, deposit, order, p2poffer, p2ptrade,
                 earnproduct, earnsubscription, now, nreq>>

approve_sent(p) ==
  /\ req[p].pc = "ap_sent"
  /\ withdrawal' = update_status(withdrawal, req[p].id, "sent")
  /\ req' = [req EXCEPT ![p] = Finish(@, "200")]
  /\ UNCHANGED <<user, wallet, deposit, order, p2poffer, p2ptrade,
                 earnproduct, earnsubscription, now, nreq>>

approve_reject(p) ==
  /\ req[p].pc = "ap_reject"
  /\ withdrawal' = update_status(withdrawal, req[p].id, "rejected")
  /\ req' = [req EXCEPT ![p] = Finish(@, "200")]
  /\ UNCHANGED <<user, wallet, deposit, order, p2poffer, p2ptrade,
                 earnproduct, earnsubscription, now, nreq>>

\* ------------------------------------------------------------ market_order
\* get_price: the feed answers with a price (up) or the lookup raises.
market_order_start(p, au, side, pair, amount, up, price) ==
  /\ CanStart(p)
  /\ nreq' = nreq + 1
  /\ LET base == PairBase(pair)
         quote == PairQuote(pair)
         cost == amount * price
         r0 == [Begin("market_order", au) EXCEPT !.side = side, !.pair = pair]
         \* asset, amount: what is debited; asset2, amount2: what is credited
         r == [r0 EXCEPT !.price = price,
                         !.asset = IF side = "buy" THEN quote ELSE base,
                         !.amount = IF side = "buy" THEN cost ELSE amount,
                         !.asset2 = IF side = "buy" THEN base ELSE quote,
                         !.amount2 = IF side = "buy" THEN amount ELSE cost]
         w == get_wallet(au.id, r.asset)
     IN  req' = [req EXCEPT ![p] =
            IF pair \notin PairSet THEN Finish(r0, "400 Unsupported pair")
            ELSE IF ~up THEN Finish(r0, "500")
            ELSE IF side \notin {"buy", "sell"} THEN Finish(r0, "400 Invalid side")
            ELSE IF w = 0 THEN Finish(r, "500")
            ELSE IF wallet[w].balance < r.amount
                 THEN Finish(r, IF side = "buy" THEN "400 Insufficient quote balance"
                                ELSE "400 Insufficient base balance")
                 ELSE [r EXCEPT !.pc = "mo_debit", !.w = w, !.bal = wallet[w].balance]]
  /\ UNCHANGED <<db, now>>

market_order_debit(p) ==
  /\ req[p].pc = "mo_debit"
  /\ wallet' = update_balance(wallet, req[p].w, req[p].bal - req[p].amount)
  /\ req' = [req EXCEPT ![p].pc = "mo_get"]
  /\ UNCHANGED <<user, deposit, withdrawal, order, p2poffer, p2ptrade, earnproduct, earnsubscription, now, nreq>>

market_order_get(p) ==
  /\ req[p].pc = "mo_get"
  /\ LET w == get_wallet(req[p].au, req[p].asset2)
     IN  req' = [req EXCEPT ![p] =
            IF w = 0 THEN Finish(@, "500")
            ELSE [@ EXCEPT !.pc = "mo_credit", !.w = w, !.bal = wallet[w].balance]]
  /\ UNCHANGED <<db, now, nreq>>

market_order_credit(p) ==
  /\ req[p].pc = "mo_credit"
  /\ wallet' = update_balance(wallet, req[p].w, req[p].bal + req[p].amount2)
  /\ req' = [req EXCEPT ![p].pc = "mo_order"]
  /\ UNCHANGED <<user, deposit, withdrawal, order, p2poffer, p2ptrade, earnproduct, earnsubscription, now, nreq>>

market_order_create(p) ==
  /\ req[p].pc = "mo_order"
  /\ order' = create_document(order,
        [user_id |-> req[p].au, side |-> req[p].side, pair |-> req[p].pair,
         amount |-> IF req[p].side = "buy" THEN req[p].amount2 ELSE req[p].amount,
         price_executed |-> req[p].price, status |-> "filled"])
  /\ req' = [req EXCEPT ![p] = Finish([@ EXCEPT !.id = Len(order) + 1], "200")]
  /\ UNCHANGED <<user, wallet, deposit, withdrawal, p2poffer, p2ptrade, earnproduct, earnsubscription, now, nreq>>

\* ------------------------------------------------------------ prices
\* out = {}; the loop over PAIRS starts, k the position in the list.
prices_start(p) ==
  /\ CanStart(p)
  /\ nreq' = nreq + 1
  /\ req' = [req EXCEPT ![p] = [NoReq EXCEPT !.op = "prices", !.pc = "pr_get", !.k = 1]]
  /\ UNCHANGED <<db, now>>

\* Mutant: a failed lookup fails the whole response.
prices_get_raises(p, up, price) ==
  /\ req[p].pc = "pr_get"
  /\ LET r == [req[p] EXCEPT
                 !.feed = Append(@, [ok |-> up, price |-> price]),
                 !.out = Append(@, [pair |-> PAIRS[req[p].k], null |-> ~up,
                                    price |-> IF up THEN price ELSE 0])]
     IN  req' = [req EXCEPT ![p] =
            IF ~up THEN Finish(r, "500")
            ELSE IF r.k = Len(PAIRS) THEN Finish(r, "200") ELSE [r EXCEPT !.k = r.k + 1]]
  /\ UNCHANGED <<db, now, nreq>>

\* out[p] = await get_price(p), or None when the lookup raises.  out is the
\* dict in insertion order; feed records what each lookup did.
prices_get(p, up, price) ==
  /\ req[p].pc = "pr_get"
  /\ LET r == [req[p] EXCEPT
                 !.feed = Append(@, [ok |-> up, price |-> price]),
                 !.out = Append(@, [pair |-> PAIRS[req[p].k], null |-> ~up,
                                    price |-> IF up THEN price ELSE 0])]
     IN  req' = [req EXCEPT ![p] =
            IF r.k = Len(PAIRS) THEN Finish(r, "200") ELSE [r EXCEPT !.k = r.k + 1]]
  /\ UNCHANGED <<db, now, nreq>>

\* ------------------------------------------------------------ create_offer
create_offer(p, au, asset, side, price, min_amount, max_amount) ==
  /\ CanStart(p)
  /\ nreq' = nreq + 1
  /\ IF asset \notin AssetSet \/ side \notin {"buy", "sell"}
     THEN /\ req' = [req EXCEPT ![p] = Finish(Begin("create_offer", au), "400 Invalid offer")]
          /\ UNCHANGED p2poffer
     ELSE /\ p2poffer' = create_document(p2poffer,
                [user_id |-> au.id, asset |-> asset, side |-> side, price |-> price,
                 min_amount |-> min_amount, max_amount |-> max_amount, status |-> "active"])
          /\ req' = [req EXCEPT ![p] =
                Finish([Begin("create_offer", au) EXCEPT !.id = Len(p2poffer) + 1], "200")]
  /\ UNCHANGED <<user, wallet, deposit, withdrawal, order, p2ptrade,
                 earnproduct, earnsubscription, now>>

\* ------------------------------------------------------------ p2p_deal
\* The seller is the offer's maker for a sell offer and the caller for a buy offer.
deal_seller(offer, caller) == IF offer.side = "sell" THEN offer.user_id ELSE caller
deal_buyer(offer, caller) == IF offer.side = "sell" THEN caller ELSE offer.user_id

\* Mutant: the amount is not checked against the offer's bounds.
p2p_deal_start_unbounded(p, au, offer_id, amount) ==
  /\ CanStart(p)
  /\ nreq' = nreq + 1
  /\ LET o == get_by_id(p2poffer, offer_id)
         r == [Begin("p2p_deal", au) EXCEPT !.id = offer_id, !.amount = amount]
     IN  req' = [req EXCEPT ![p] =
            IF o = 0 \/ p2poffer[o].status # "active" THEN Finish(r, "400 Offer not available")
            ELSE [r EXCEPT !.pc = "deal_get", !.asset = p2poffer[o].asset,
                           !.price = p2poffer[o].price,
                           !.seller = deal_seller(p2poffer[o], au.id),
                           !.buyer = deal_buyer(p2poffer[o], au.id)]]
  /\ UNCHANGED <<db, now>>

p2p_deal_start(p, au, offer_id, amount) ==
  /\ CanStart(p)
  /\ nreq' = nreq + 1
  /\ LET o == get_by_id(p2poffer, offer_id)
         r == [Begin("p2p_deal", au) EXCEPT !.id = offer_id, !.amount = amount]
     IN  req' = [req EXCEPT ![p] =
            IF o = 0 \/ p2poffer[o].status # "active" THEN Finish(r, "400 Offer not available")
            ELSE IF amount < p2poffer[o].min_amount \/ amount > p2poffer[o].max_amount
                 THEN Finish(r, "400 Amount out of bounds")
                 ELSE [r EXCEPT !.pc = "deal_get", !.asset = p2poffer[o].asset,
                                !.price = p2poffer[o].price,
                                !.seller = deal_seller(p2poffer[o], au.id),
                                !.buyer = deal_buyer(p2poffer[o], au.id)]]
  /\ UNCHANGED <<db, now>>

p2p_deal_get(p) ==
  /\ req[p].pc = "deal_get"
  /\ LET w == get_wallet(req[p].seller, req[p].asset)
     IN  req' = [req EXCEPT ![p] =
            IF w = 0 THEN Finish(@, "500")
            ELSE IF wallet[w].balance < req[p].amount
                 THEN Finish(@, "400 Insufficient escrow funds")
                 ELSE [@ EXCEPT !.pc = "deal_debit", !.w = w, !.bal = wallet[w].balance]]
  /\ UNCHANGED <<db, now, nreq>>

\* Mutant: the deal is opened without reserving the seller's funds.
p2p_deal_no_debit(p) ==
  /\ req[p].pc = "deal_debit"
  /\ req' = [req EXCEPT ![p].pc = "deal_create"]
  /\ UNCHANGED <<db, now, nreq>>

p2p_deal_debit(p) ==
  /\ req[p].pc = "deal_debit"
  /\ wallet' = update_balance(wallet, req[p].w, req[p].bal - req[p].amount)
  /\ req' = [req EXCEPT ![p].pc = "deal_create"]
  /\ UNCHANGED <<user, deposit, withdrawal, order, p2poffer, p2ptrade, earnproduct, earnsubscription, now, nreq>>

p2p_deal_create(p) ==
  /\ req[p].pc = "deal_create"
  /\ p2ptrade' = create_document(p2ptrade,
        [offer_id |-> req[p].id, buyer_id |-> req[p].buyer, seller_id |-> req[p].seller,
         asset |-> req[p].asset, amount |-> req[p].amount, price |-> req[p].price,
         status |-> "escrow"])
  /\ req' = [req EXCEPT ![p] = Finish([@ EXCEPT !.id = Len(p2ptrade) + 1], "200")]
  /\ UNCHANGED <<user, wallet, deposit, withdrawal, order, p2poffer, earnproduct, earnsubscription, now, nreq>>

\* ------------------------------------------------------------ p2p_release
\* Mutant: any authenticated caller may release a trade in escrow.
p2p_release_start_any_caller(p, au, trade_id) ==
  /\ CanStart(p)
  /\ nreq' = nreq + 1
  /\ LET t == get_by_id(p2ptrade, trade_id)
         r == [Begin("p2p_release", au) EXCEPT !.id = trade_id]
     IN  req' = [req EXCEPT ![p] =
            IF t = 0 \/ p2ptrade[t].status # "escrow" THEN Finish(r, "400 Invalid trade")
            ELSE [r EXCEPT !.pc = "rel_get", !.asset = p2ptrade[t].asset,
                           !.amount = p2ptrade[t].amount,
                           !.seller = p2ptrade[t].seller_id,
                           !.buyer = p2ptrade[t].buyer_id]]
  /\ UNCHANGED <<db, now>>

p2p_release_start(p, au, trade_id) ==
  /\ CanStart(p)
  /\ nreq' = nreq + 1
  /\ LET t == get_by_id(p2ptrade, trade_id)
         r == [Begin("p2p_release", au) EXCEPT !.id = trade_id]
     IN  req' = [req EXCEPT ![p] =
            IF t = 0 \/ p2ptrade[t].status # "escrow" THEN Finish(r, "400 Invalid trade")
            ELSE IF p2ptrade[t].seller_id # au.id THEN Finish(r, "403 Only seller can release")
            ELSE [r EXCEPT !.pc = "rel_get", !.asset = p2ptrade[t].asset,
                           !.amount = p2ptrade[t].amount,
                           !.seller = p2ptrade[t].seller_id,
                           !.buyer = p2ptrade[t].buyer_id]]
  /\ UNCHANGED <<db, now>>

p2p_release_get(p) ==
  /\ req[p].pc = "rel_get"
  /\ LET w == get_wallet(req[p].buyer, req[p].asset)
     IN  req' = [req EXCEPT ![p] =
            IF w = 0 THEN Finish(@, "500")
            ELSE [@ EXCEPT !.pc = "rel_credit", !.w = w, !.bal = wallet[w].balance]]
  /\ UNCHANGED <<db, now, nreq>>

p2p_release_credit(p) ==
  /\ req[p].pc = "rel_credit"
  /\ wallet' = update_balance(wallet, req[p].w, req[p].bal + req[p].amount)
  /\ req' = [req EXCEPT ![p].pc = "rel_status"]
  /\ UNCHANGED <<user, deposit, withdrawal, order, p2poffer, p2ptrade, earnproduct, earnsubscription, now, nreq>>

\* Mutant: the release step cancels the trade.
p2p_release_status_cancels(p) ==
  /\ req[p].pc = "rel_status"
  /\ p2ptrade' = update_status(p2ptrade, req[p].id, "cancelled")
  /\ req' = [req EXCEPT ![p] = Finish(@, "200 released")]
  /\ UNCHANGED <<user, wallet, deposit, withdrawal, order, p2poffer, earnproduct, earnsubscription, now, nreq>>

p2p_release_status(p) ==
  /\ req[p].pc = "rel_status"
  /\ p2ptrade' = update_status(p2ptrade, req[p].id, "released")
  /\ req' = [req EXCEPT ![p] = Finish(@, "200 released")]
  /\ UNCHANGED <<user, wallet, deposit, withdrawal, order, p2poffer, earnproduct, earnsubscription, now, nreq>>

\* ------------------------------------------------------------ create_product
create_product(p, au, asset, apy, lock_days) ==
  /\ CanStart(p)
  /\ nreq' = nreq + 1
  /\ IF ~au.is_admin \/ asset \notin AssetSet
     THEN /\ req' = [req EXCEPT ![p] = Finish(Begin("create_product", au),
                        IF ~au.is_admin THEN "403 Admin only" ELSE "400 Invalid asset")]
          /\ UNCHANGED earnproduct
     ELSE /\ earnproduct' = create_document(earnproduct,
                [asset |-> asset, apy |-> apy, lock_days |-> lock_days, status |-> "active"])
          /\ req' = [req EXCEPT ![p] =
                Finish([Begin("create_product", au) EXCEPT !.id = Len(earnproduct) + 1], "200")]
  /\ UNCHANGED <<user, wallet, deposit, withdrawal, order, p2poffer, p2ptrade,
                 earnsubscription, now>>

\* ------------------------------------------------------------ subscribe
subscribe_start(p, au, product_id, amount) ==
  /\ CanStart(p)
  /\ nreq' = nreq + 1
  /\ LET pr == get_document(earnproduct, [_id |-> product_id, status |-> "active"])
         r == [Begin("subscribe", au) EXCEPT !.id = product_id, !.amount = amount]
     IN  req' = [req EXCEPT ![p] =
            IF pr = 0 THEN Finish(r, "404 Product not found")
            ELSE [r EXCEPT !.pc = "sub_get", !.asset = earnproduct[pr].asset]]
  /\ UNCHANGED <<db, now>>

subscribe_get(p) ==
  /\ req[p].pc = "sub_get"
  /\ LET w == get_wallet(req[p].au, req[p].asset)
     IN  req' = [req EXCEPT ![p] =
            IF w = 0 THEN Finish(@, "500")
            ELSE IF wallet[w].balance < req[p].amount
                 THEN Finish(@, "400 Insufficient balance")
                 ELSE [@ EXCEPT !.pc = "sub_debit", !.w = w, !.bal = wallet[w].balance]]
  /\ UNCHANGED <<db, now, nreq>>

subscribe_debit(p) ==
  /\ req[p].pc = "sub_debit"
  /\ wallet' = update_balance(wallet, req[p].w, req[p].bal - req[p].amount)
  /\ req' = [req EXCEPT ![p].pc = "sub_create"]
  /\ UNCHANGED <<user, deposit, withdrawal, order, p2poffer, p2ptrade, earnproduct, earnsubscription, now, nreq>>

subscribe_create(p) ==
  /\ req[p].pc = "sub_create"
  /\ earnsubscription' = create_document(earnsubscription,
        [user_id |-> req[p].au, product_id |-> req[p].id, amount |-> req[p].amount,
         start_date |-> now, end_date |-> -1, status |-> "accruing"])
  /\ req' = [req EXCEPT ![p] = Finish([@ EXCEPT !.id = Len(earnsubscription) + 1], "200")]
  /\ UNCHANGED <<user, wallet, deposit, withdrawal, order, p2poffer, p2ptrade, earnproduct, now, nreq>>

\* ------------------------------------------------------------ redeem
\* Clock ticks to a day: the clock is finer than the whole days of timedelta.days.
DayTicks == 2

\* (datetime.utcnow() - start_date).days: the whole days elapsed.
days_between(start, end) == (end - start) \div DayTicks

\* reward = amount * (apy / 100) * (days / 365); exact on the model's inputs
\* (amounts in tens, whole years).
reward(amount, apy, days) == (amount * apy * days) \div (100 * 365)

\* Mutant: a subscription cannot be redeemed before its product's lock_days.
redeem_start_locked(p, au, subscription_id) ==
  /\ CanStart(p)
  /\ nreq' = nreq + 1
  /\ LET s == get_document(earnsubscription,
                 [_id |-> subscription_id, user_id |-> au.id])
         r == [Begin("redeem", au) EXCEPT !.id = subscription_id]
     IN  req' = [req EXCEPT ![p] =
            IF s = 0 \/ earnsubscription[s].status # "accruing"
            THEN Finish(r, "400 Invalid subscription")
            ELSE IF days_between(earnsubscription[s].start_date, now)
                      < earnproduct[earnsubscription[s].product_id].lock_days
                 THEN Finish(r, "400 Locked")
                 ELSE [r EXCEPT !.pc = "red_prod", !.amount = earnsubscription[s].amount,
                                !.start = earnsubscription[s].start_date,
                                !.product = earnsubscription[s].product_id]]
  /\ UNCHANGED <<db, now>>

redeem_start(p, au, subscription_id) ==
  /\ CanStart(p)
  /\ nreq' = nreq + 1
  /\ LET s == get_document(earnsubscription,
                 [_id |-> subscription_id, user_id |-> au.id])
         r == [Begin("redeem", au) EXCEPT !.id = subscription_id]
     IN  req' = [req EXCEPT ![p] =
            IF s = 0 \/ earnsubscription[s].status # "accruing"
            THEN Finish(r, "400 Invalid subscription")
            ELSE [r EXCEPT !.pc = "red_prod", !.amount = earnsubscription[s].amount,
                           !.start = earnsubscription[s].start_date,
                           !.product = earnsubscription[s].product_id]]
  /\ UNCHANGED <<db, now>>

\* get_document("earnproduct"): the product's asset and apy.
redeem_prod(p) ==
  /\ req[p].pc = "red_prod"
  /\ LET pr == get_by_id(earnproduct, req[p].product)
     IN  req' = [req EXCEPT ![p] =
            IF pr = 0 THEN Finish(@, "500")
            ELSE [@ EXCEPT !.pc = "red_get", !.asset = earnproduct[pr].asset,
                           !.apy = earnproduct[pr].apy]]
  /\ UNCHANGED <<db, now, nreq>>

\* days and reward are computed when the product has been read; then the wallet is read.
redeem_get(p) ==
  /\ req[p].pc = "red_get"
  /\ LET w == get_wallet(req[p].au, req[p].asset)
         days == days_between(req[p].start, now)
     IN  req' = [req EXCEPT ![p] =
            IF w = 0 THEN Finish(@, "500")
            ELSE [@ EXCEPT !.pc = "red_credit", !.w = w, !.bal = wallet[w].balance,
                           !.amount2 = reward(req[p].amount, req[p].apy, days)]]
  /\ UNCHANGED <<db, now, nreq>>

redeem_credit(p) ==
  /\ req[p].pc = "red_credit"
  /\ wallet' = update_balance(wallet, req[p].w, req[p].bal + req[p].amount + req[p].amount2)
  /\ req' = [req EXCEPT ![p].pc = "red_status"]
  /\ UNCHANGED <<user, deposit, withdrawal, order, p2poffer, p2ptrade, earnproduct, earnsubscription, now, nreq>>

redeem_status(p) ==
  /\ req[p].pc = "red_status"
  /\ earnsubscription' = [earnsubscription EXCEPT ![req[p].id].status = "redeemed",
                                                   ![req[p].id].end_date = now]
  /\ req' = [req EXCEPT ![p] = Finish(@, "200 redeemed")]
  /\ UNCHANGED <<user, wallet, deposit, withdrawal, order, p2poffer, p2ptrade, earnproduct, now, nreq>>

\* Time passes: a year per step.
Tick ==
  /\ now < MaxYears * 365 * DayTicks
  /\ now' = now + 365 * DayTicks
  /\ UNCHANGED <<db, req, nreq>>

\* Time passes: the clock leaves midnight by less than a day.
TickPart ==
  /\ now % DayTicks = 0
  /\ now' = now + 1
  /\ UNCHANGED <<db, req, nreq>>

\* ------------------------------------------------------------ register
register_start(p, email) ==
  /\ CanStart(p)
  /\ nreq' = nreq + 1
  /\ LET existing == get_document(user, [email |-> email])
         r == [NoReq EXCEPT !.op = "register", !.email = email]
     IN  req' = [req EXCEPT ![p] =
            IF existing # 0 THEN Finish(r, "400 Email already registered")
            ELSE [r EXCEPT !.pc = "reg_create"]]
  /\ UNCHANGED <<db, now>>

register_create(p) ==
  /\ req[p].pc = "reg_create"
  /\ user' = create_document(user, [email |-> req[p].email, is_admin |-> FALSE])
  /\ req' = [req EXCEPT ![p] = [@ EXCEPT !.pc = "ew_get", !.au = Len(user) + 1, !.k = 1]]
  /\ UNCHANGED <<wallet, deposit, withdrawal, order, p2poffer, p2ptrade, earnproduct, earnsubscription, now, nreq>>

\* ensure_wallets: the loop over ASSETS, k the position in the list.
ensure_next(r) ==
  IF r.k = Len(ASSETS)
  THEN Finish(r, IF r.op = "register" THEN "200 token" ELSE "returned")
  ELSE [r EXCEPT !.pc = "ew_get", !.k = r.k + 1]

\* ensure_wallets(user_id) called on its own, outside register.
ensure_wallets_start(p, user_id) ==
  /\ CanStart(p)
  /\ nreq' = nreq + 1
  /\ req' = [req EXCEPT ![p] =
        [NoReq EXCEPT !.op = "ensure_wallets", !.pc = "ew_get", !.au = user_id, !.k = 1]]
  /\ UNCHANGED <<db, now>>

\* Mutant: a wallet is created without looking for an existing one.
ensure_wallets_get_blind(p) ==
  /\ req[p].pc = "ew_get"
  /\ req' = [req EXCEPT ![p].pc = "ew_create"]
  /\ UNCHANGED <<db, now, nreq>>

ensure_wallets_get(p) ==
  /\ req[p].pc = "ew_get"
  /\ LET existing == get_wallet(req[p].au, ASSETS[req[p].k])
     IN  req' = [req EXCEPT ![p] =
            IF existing = 0 THEN [@ EXCEPT !.pc = "ew_create"] ELSE ensure_next(@)]
  /\ UNCHANGED <<db, now, nreq>>

ensure_wallets_create(p) ==
  /\ req[p].pc = "ew_create"
  /\ wallet' = create_document(wallet,
        [user_id |-> req[p].au, asset |-> ASSETS[req[p].k],
         address |-> <<ASSETS[req[p].k], "ADDR", req[p].au>>, balance |-> 0])
  /\ req' = [req EXCEPT ![p] = ensure_next(@)]
  /\ UNCHANGED <<user, deposit, withdrawal, order, p2poffer, p2ptrade, earnproduct, earnsubscription, now, nreq>>

\* ------------------------------------------------------------ initial states
\* The wallets ensure_wallets has provisioned for users 1..n, each holding bal.
Provisioned(n, bal) ==
  [k \in 1..(n * Len(ASSETS)) |->
     [user_id |-> ((k - 1) \div Len(ASSETS)) + 1,
      asset |-> ASSETS[((k - 1) % Len(ASSETS)) + 1],
      address |-> <<ASSETS[((k - 1) % Len(ASSETS)) + 1], "ADDR", ((k - 1) \div Len(ASSETS)) + 1>>,
      balance |-> bal]]

\* User 1 is a customer, user 2 an administrator (is_admin set in the database).
TwoUsers == <<[email |-> "a", is_admin |-> FALSE], [email |-> "b", is_admin |-> TRUE]>>

Empty ==
  /\ deposit = << >>
  /\ withdrawal = << >>
  /\ order = << >>
  /\ p2poffer = << >>
  /\ p2ptrade = << >>
  /\ earnproduct = << >>
  /\ earnsubscription = << >>
  /\ now = 0
  /\ req = [p \in Procs |-> NoReq]
  /\ nreq = 0

Quiescent == \A p \in Procs : req[p].pc = "idle"

Balance(u, a) == wallet[get_wallet(u, a)].balance

\* ------------------------------------------------------------ ledger: deposits and withdrawals
InitLedger ==
  /\ user = TwoUsers
  /\ wallet = Provisioned(2, InitBal)
  /\ Empty

NextLedger ==
  \/ \E p \in Procs, au \in Tokens, a \in {"BTC", "XRP"}, x \in Amounts :
       nreq < MaxReq /\ deposit_start(p, au, a, x)
  \/ \E p \in Procs, au \in Tokens, a \in {"BTC", "XRP"}, x \in Amounts :
       nreq < MaxReq /\ withdraw_start(p, au, a, x)
  \/ \E p \in Procs, au \in Tokens, id \in 0..Len(withdrawal), b \in BOOLEAN :
       nreq < MaxReq /\ approve_start(p, au, id, b)
  \/ \E p \in Procs : deposit_get(p)
  \/ \E p \in Procs : deposit_upd(p)
  \/ \E p \in Procs : withdraw_create(p)
  \/ \E p \in Procs : approve_get(p)
  \/ \E p \in Procs : approve_debit(p)
  \/ \E p \in Procs : approve_sent(p)
  \/ \E p \in Procs : approve_reject(p)
  \/ \E p \in Procs : Reply(p)

SpecLedger == InitLedger /\ [][NextLedger]_vars

\* ------------------------------------------------------------ peer-to-peer trades
\* Each user has published a sell offer.
SellOffers ==
  [u \in 1..2 |-> [user_id |-> u, asset |-> "BTC", side |-> "sell", price |-> 1,
                   min_amount |-> 10, max_amount |-> 20, status |-> "active"]]

InitP2P ==
  /\ user = TwoUsers
  /\ wallet = Provisioned(2, InitBal)
  /\ deposit = << >>
  /\ withdrawal = << >>
  /\ order = << >>
  /\ p2poffer = SellOffers
  /\ p2ptrade = << >>
  /\ earnproduct = << >>
  /\ earnsubscription = << >>
  /\ now = 0
  /\ req = [p \in Procs |-> NoReq]
  /\ nreq = 0

NextP2P ==
  \/ \E p \in Procs, au \in Tokens, o \in 0..Len(p2poffer), x \in Amounts :
       nreq < MaxP2P /\ p2p_deal_start(p, au, o, x)
  \/ \E p \in Procs, au \in Tokens, t \in 0..Len(p2ptrade) :
       nreq < MaxP2P /\ p2p_release_start(p, au, t)
  \/ \E p \in Procs : p2p_deal_get(p)
  \/ \E p \in Procs : p2p_deal_debit(p)
  \/ \E p \in Procs : p2p_deal_create(p)
  \/ \E p \in Procs : p2p_release_get(p)
  \/ \E p \in Procs : p2p_release_credit(p)
  \/ \E p \in Procs : p2p_release_status(p)
  \/ \E p \in Procs : Reply(p)

SpecP2P == InitP2P /\ [][NextP2P]_vars

\* ------------------------------------------------------------ one escrow trade
\* Requests one after the other: an offer is published, one deal is opened
\* and its trade is released.
NextEscrow ==
  \/ \E p \in Procs, au \in Tokens, a \in {"BTC", "XRP"}, side \in {"buy", "sell", "swap"},
        lo \in {-10, 10}, hi \in {10, 20} :
       /\ Quiescent /\ nreq < MaxSeq /\ p2poffer = << >>
       /\ create_offer(p, au, a, side, 1, lo, hi)
  \/ \E p \in Procs, au \in Tokens, o \in 0..Len(p2poffer), x \in Amounts :
       /\ Quiescent /\ nreq < MaxSeq /\ p2ptrade = << >>
       /\ p2p_deal_start(p, au, o, x)
  \/ \E p \in Procs, au \in Tokens, t \in 0..Len(p2ptrade) :
       /\ Quiescent /\ nreq < MaxSeq
       /\ p2p_release_start(p, au, t)
  \/ \E p \in Procs : p2p_deal_get(p)
  \/ \E p \in Procs : p2p_deal_debit(p)
  \/ \E p \in Procs : p2p_deal_create(p)
  \/ \E p \in Procs : p2p_release_get(p)
  \/ \E p \in Procs : p2p_release_credit(p)
  \/ \E p \in Procs : p2p_release_status(p)
  \/ \E p \in Procs : Reply(p)

SpecEscrow == InitLedger /\ [][NextEscrow]_vars

\* ------------------------------------------------------------ end to end
\* Only the administrator exists, with empty wallets.  Requests one after the
\* other: users register, one deposit and one withdrawal are made, and the
\* administrator decides on the pending withdrawal.
InitE2E ==
  /\ user = <<[email |-> "b", is_admin |-> TRUE]>>
  /\ wallet = Provisioned(1, 0)
  /\ Empty

NextE2E ==
  \/ \E p \in Procs, email \in {"a", "b"} :
       /\ Quiescent /\ nreq < MaxSeq
       /\ register_start(p, email)
  \/ \E p \in Procs, au \in Tokens, a \in AssetSet \cup {"XRP"}, x \in Amounts :
       /\ Quiescent /\ nreq < MaxSeq /\ deposit = << >>
       /\ deposit_start(p, au, a, x)
  \/ \E p \in Procs, au \in Tokens, a \in AssetSet \cup {"XRP"}, x \in Amounts :
       /\ Quiescent /\ nreq < MaxSeq /\ withdrawal = << >>
       /\ withdraw_start(p, au, a, x)
  \/ \E p \in Procs, au \in Tokens, id \in 0..Len(withdrawal), b \in BOOLEAN :
       /\ Quiescent /\ nreq < MaxSeq
       /\ id # 0 => withdrawal[id].status = "pending"
       /\ approve_start(p, au, id, b)
  \/ \E p \in Procs : register_create(p)
  \/ \E p \in Procs : ensure_wallets_get(p)
  \/ \E p \in Procs : ensure_wallets_create(p)
  \/ \E p \in Procs : deposit_get(p)
  \/ \E p \in Procs : deposit_upd(p)
  \/ \E p \in Procs : withdraw_create(p)
  \/ \E p \in Procs : approve_get(p)
  \/ \E p \in Procs : approve_debit(p)
  \/ \E p \in Procs : approve_sent(p)
  \/ \E p \in Procs : approve_reject(p)
  \/ \E p \in Procs : Reply(p)

SpecE2E == InitE2E /\ [][NextE2E]_vars

\* ------------------------------------------------------------ wallet provisioning
\* User 1 is provisioned and funded; user 2's document has just been created
\* and its wallets are not provisioned yet (register between its
\* create_document and its ensure_wallets).
InitProvision ==
  /\ user = TwoUsers
  /\ wallet = Provisioned(1, InitBal)
  /\ Empty

\* ensure_wallets calls one after the other, with deposits in between.
NextProvision ==
  \/ \E p \in Procs, u \in 1..Len(user) :
       /\ Quiescent /\ nreq < MaxSeq
       /\ ensure_wallets_start(p, u)
  \/ \E p \in Procs, au \in Tokens, a \in {"BTC", "USDT"} :
       /\ Quiescent /\ nreq < MaxSeq
       /\ deposit_start(p, au, a, 10)
  \/ \E p \in Procs : ensure_wallets_get(p)
  \/ \E p \in Procs : ensure_wallets_create(p)
  \/ \E p \in Procs : deposit_get(p)
  \/ \E p \in Procs : deposit_upd(p)
  \/ \E p \in Procs : Reply(p)

SpecProvision == InitProvision /\ [][NextProvision]_vars

\* ensure_wallets calls running concurrently.
NextProvisionRace ==
  \/ \E p \in Procs, u \in 1..Len(user) :
       nreq < MaxReq /\ ensure_wallets_start(p, u)
  \/ \E p \in Procs : ensure_wallets_get(p)
  \/ \E p \in Procs : ensure_wallets_create(p)
  \/ \E p \in Procs : Reply(p)

SpecProvisionRace == InitProvision /\ [][NextProvisionRace]_vars

\* ------------------------------------------------------------ yield subscriptions
\* Two users holding 100 of every asset and a product at 10 percent a year
\* with a lock of 30 days.  Requests one after the other; subscriptions are
\* opened on day 0 and redeemed at any time; the clock moves between requests.
InitEarn ==
  /\ user = TwoUsers
  /\ wallet = Provisioned(2, 100)
  /\ deposit = << >>
  /\ withdrawal = << >>
  /\ order = << >>
  /\ p2poffer = << >>
  /\ p2ptrade = << >>
  /\ earnproduct = <<[asset |-> "BTC", apy |-> 10, lock_days |-> 30, status |-> "active"]>>
  /\ earnsubscription = << >>
  /\ now = 0
  /\ req = [p \in Procs |-> NoReq]
  /\ nreq = 0

NextEarn ==
  \/ \E p \in Procs, au \in Tokens, pr \in 0..Len(earnproduct), x \in {0, 100, 200} :
       /\ Quiescent /\ nreq < MaxSeq /\ now = 0
       /\ subscribe_start(p, au, pr, x)
  \/ \E p \in Procs, au \in Tokens, sb \in 0..Len(earnsubscription) :
       /\ Quiescent /\ nreq < MaxSeq
       /\ redeem_start(p, au, sb)
  \/ \E p \in Procs : subscribe_get(p)
  \/ \E p \in Procs : subscribe_debit(p)
  \/ \E p \in Procs : subscribe_create(p)
  \/ \E p \in Procs : redeem_prod(p)
  \/ \E p \in Procs : redeem_get(p)
  \/ \E p \in Procs : redeem_credit(p)
  \/ \E p \in Procs : redeem_status(p)
  \/ \E p \in Procs : Reply(p)
  \/ Quiescent /\ Tick
  \/ Quiescent /\ TickPart

SpecEarn == InitEarn /\ [][NextEarn]_vars

\* ------------------------------------------------------------ price list
\* Price-list requests against a feed that answers or fails at each lookup.
NextPrices ==
  \/ \E p \in Procs : nreq < MaxReq /\ prices_start(p)
  \/ \E p \in Procs, up \in BOOLEAN, x \in {1, 2} : prices_get(p, up, x)
  \/ \E p \in Procs : Reply(p)

SpecPrices == InitLedger /\ [][NextPrices]_vars

\* ------------------------------------------------------------ approvals of one withdrawal
\* User 1 holds twice InitBal and has a pending withdrawal of InitBal; the
\* administrator's decisions on it arrive one after the other or concurrently.
InitApproval ==
  /\ user = TwoUsers
  /\ wallet = Provisioned(2, InitBal + InitBal)
  /\ deposit = << >>
  /\ withdrawal = <<[user_id |-> 1, asset |-> "BTC", amount |-> InitBal, status |-> "pending"]>>
  /\ order = << >>
  /\ p2poffer = << >>
  /\ p2ptrade = << >>
  /\ earnproduct = << >>
  /\ earnsubscription = << >>
  /\ now = 0
  /\ req = [p \in Procs |-> NoReq]
  /\ nreq = 0

NextApproval ==
  \/ \E p \in Procs, au \in Tokens, id \in 0..Len(withdrawal), b \in BOOLEAN :
       nreq < MaxReq /\ approve_start(p, au, id, b)
  \/ \E p \in Procs : approve_get(p)
  \/ \E p \in Procs : approve_debit(p)
  \/ \E p \in Procs : approve_sent(p)
  \/ \E p \in Procs : approve_reject(p)
  \/ \E p \in Procs : Reply(p)

SpecApproval == InitApproval /\ [][NextApproval]_vars

\* ------------------------------------------------------------ the whole system
\* The exchange in mid-life: two users with provisioned wallets, user 1 with a
\* published sell offer, a trade in escrow, an accruing subscription and a
\* pending withdrawal.  Any two requests are then issued, one after the other
\* or concurrently.
Init ==
  /\ user = TwoUsers
  /\ wallet = Provisioned(2, InitBal)
  /\ deposit = << >>
  /\ withdrawal = <<[user_id |-> 1, asset |-> "BTC", amount |-> 10, status |-> "pending"]>>
  /\ order = << >>
  /\ p2poffer = <<SellOffers[1]>>
  /\ p2ptrade = <<[offer_id |-> 1, buyer_id |-> 2, seller_id |-> 1, asset |-> "BTC",
                   amount |-> 10, price |-> 1, status |-> "escrow"]>>
  /\ earnproduct = <<[asset |-> "BTC", apy |-> 10, lock_days |-> 30, status |-> "active"]>>
  /\ earnsubscription = <<[user_id |-> 1, product_id |-> 1, amount |-> 10,
                           start_date |-> 0, end_date |-> -1, status |-> "accruing"]>>
  /\ now = 0
  /\ req = [p \in Procs |-> NoReq]
  /\ nreq = 0

Next ==
  \/ \E p \in Procs, email \in {"a", "c"} :
       nreq < MaxRace /\ register_start(p, email)
  \/ \E p \in Procs, au \in Tokens, a \in {"BTC", "XRP"}, x \in Amounts :
       nreq < MaxRace /\ deposit_start(p, au, a, x)
  \/ \E p \in Procs, au \in Tokens, a \in {"BTC", "XRP"}, x \in Amounts :
       nreq < MaxRace /\ withdraw_start(p, au, a, x)
  \/ \E p \in Procs, au \in Tokens, id \in 0..Len(withdrawal), b \in BOOLEAN :
       nreq < MaxRace /\ approve_start(p, au, id, b)
  \/ \E p \in Procs, au \in Tokens, side \in {"buy", "sell", "hold"},
        pair \in {"BTC-USDT", "XRP-USDT"}, x \in Amounts, up \in BOOLEAN :
       nreq < MaxRace /\ market_order_start(p, au, side, pair, x, up, 1)
  \/ \E p \in Procs, au \in Tokens, a \in {"BTC", "XRP"}, side \in {"buy", "sell", "swap"},
        lo \in {-10, 10}, hi \in {10, 20} :
       nreq < MaxRace /\ create_offer(p, au, a, side, 1, lo, hi)
  \/ \E p \in Procs, au \in Tokens, o \in 0..Len(p2poffer), x \in Amounts :
       nreq < MaxRace /\ p2p_deal_start(p, au, o, x)
  \/ \E p \in Procs, au \in Tokens, t \in 0..Len(p2ptrade) :
       nreq < MaxRace /\ p2p_release_start(p, au, t)
  \/ \E p \in Procs, au \in Tokens, a \in {"BTC", "XRP"} :
       nreq < MaxRace /\ create_product(p, au, a, 10, 30)
  \/ \E p \in Procs, au \in Tokens, pr \in 0..Len(earnproduct), x \in Amounts :
       nreq < MaxRace /\ subscribe_start(p, au, pr, x)
  \/ \E p \in Procs, au \in Tokens, sb \in 0..Len(earnsubscription) :
       nreq < MaxRace /\ redeem_start(p, au, sb)
  \/ \E p \in Procs : register_create(p)
  \/ \E p \in Procs : ensure_wallets_get(p)
  \/ \E p \in Procs : ensure_wallets_create(p)
  \/ \E p \in Procs : deposit_get(p)
  \/ \E p \in Procs : deposit_upd(p)
  \/ \E p \in Procs : withdraw_create(p)
  \/ \E p \in Procs : approve_get(p)
  \/ \E p \in Procs : approve_debit(p)
  \/ \E p \in Procs : approve_sent(p)
  \/ \E p \in Procs : approve_reject(p)
  \/ \E p \in Procs : market_order_debit(p)
  \/ \E p \in Procs : market_order_get(p)
  \/ \E p \in Procs : market_order_credit(p)
  \/ \E p \in Procs : market_order_create(p)
  \/ \E p \in Procs : p2p_deal_get(p)
  \/ \E p \in Procs : p2p_deal_debit(p)
  \/ \E p \in Procs : p2p_deal_create(p)
  \/ \E p \in Procs : p2p_release_get(p)
  \/ \E p \in Procs : p2p_release_credit(p)
  \/ \E p \in Procs : p2p_release_status(p)
  \/ \E p \in Procs : subscribe_get(p)
  \/ \E p \in Procs : subscribe_debit(p)
  \/ \E p \in Procs : subscribe_create(p)
  \/ \E p \in Procs : redeem_prod(p)
  \/ \E p \in Procs : redeem_get(p)
  \/ \E p \in Procs : redeem_credit(p)
  \/ \E p \in Procs : redeem_status(p)
  \/ \E p \in Procs : Reply(p)
  \/ Tick

Spec == Init /\ [][Next]_vars

\* ------------------------------------------------------------ claims
\* The request slot p takes a step.
Steps(p) == req'[p] # req[p]

\* C1: every wallet balance is >= 0 in every reachable state.
C1_BalancesNonNegative ==
  \A i \in 1..Len(wallet) : wallet[i].balance >= 0

RECURSIVE SumDeposits(_, _, _)
SumDeposits(n, u, a) ==
  IF n = 0 THEN 0
  ELSE SumDeposits(n - 1, u, a)
       + (IF deposit[n].user_id = u /\ deposit[n].asset = a THEN deposit[n].amount ELSE 0)

\* C2: once all requests have completed, a wallet's balance is its initial
\* balance plus the credits that succeeded minus the debits that succeeded.
\* Stated on the runs in which no debit succeeded (every withdrawal is still
\* pending, so no approval debited) and every deposit is of a positive amount:
\* the credits are the recorded deposits.
C2_NoLostUpdate ==
  (/\ Quiescent
   /\ \A i \in 1..Len(withdrawal) : withdrawal[i].status = "pending"
   /\ \A i \in 1..Len(deposit) : deposit[i].amount > 0)
    => \A u \in 1..Len(user) : \A a \in AssetSet :
         Balance(u, a) = InitBal + SumDeposits(Len(deposit), u, a)

\* C7: an approval that fails for insufficient funds writes nothing: neither
\* its lookup of the withdrawal nor its failing balance check changes the
\* withdrawal's status (a pending withdrawal stays pending) or any balance.
C7_FailedApprovalWritesNothing ==
  [][\A p \in Procs :
       (Steps(p) /\ req'[p].op = "approve"
          /\ (req'[p].pc = "ap_get" \/ req'[p].resp = "400 Insufficient funds at approval"))
       => (withdrawal' = withdrawal /\ wallet' = wallet)]_vars

C7_Witness ==
  \E p \in Procs :
    /\ req[p].resp = "400 Insufficient funds at approval"
    /\ withdrawal[req[p].id].status = "pending"
    /\ Balance(withdrawal[req[p].id].user_id, withdrawal[req[p].id].asset)
         < withdrawal[req[p].id].amount

\* C9: no step of a withdraw request changes a balance, no step of an approval
\* with approve=false changes a balance, and among deposit, withdraw and
\* approve_withdrawal the only steps that write a wallet are the deposit's
\* credit and the debit of an approval with approve=true.
C9_DebitOnApprovalOnly ==
  [][/\ \A p \in Procs :
          (Steps(p) /\ (req[p].op = "withdraw" \/ req'[p].op = "withdraw")) => wallet' = wallet
     /\ \A p \in Procs :
          (Steps(p) /\ (req[p].pc = "ap_reject" \/ req'[p].pc = "ap_reject")) => wallet' = wallet
     /\ wallet' # wallet =>
          \E p \in Procs : Steps(p) /\ req[p].pc \in {"dep_upd", "ap_debit"}]_vars

C9_Witness ==
  /\ \E i \in 1..Len(withdrawal) : withdrawal[i].status = "rejected"
  /\ \E p \in Procs : req[p].op = "withdraw" /\ req[p].resp = "400 Insufficient balance"
  /\ wallet = Provisioned(2, InitBal)

\* C10: a balance-moving request with an amount <= 0 is rejected: it never gets
\* past validation and never ends in success.
C10_NonPositiveRejected ==
  \A p \in Procs :
    (req[p].op \in {"deposit", "withdraw", "market_order", "p2p_deal", "subscribe"}
       /\ (IF req[p].op = "market_order" /\ req[p].side = "buy"
           THEN req[p].amount2 ELSE req[p].amount) <= 0)
    => (req[p].pc = "done" /\ req[p].resp \notin {"200", "200 pending"})

\* C3: a debit is never applied to a wallet whose balance, at the moment the
\* debit is written, is lower than the amount debited.
C3_DebitWithinBalance ==
  [][\A p \in Procs :
       (Steps(p) /\ req[p].pc \in {"ap_debit", "mo_debit", "deal_debit", "sub_debit"})
       => wallet[req[p].w].balance >= req[p].amount]_vars

\* A market order's debit is written and its credit is not.
HalfApplied(p) == req[p].pc \in {"mo_get", "mo_credit"}

\* The request slot q reads a wallet of user u in this step.
ReadsWalletOf(q, u) ==
  /\ Steps(q)
  /\ req[q].pc \in {"idle", "dep_get", "ap_get", "mo_get", "deal_get", "rel_get",
                    "sub_get", "red_get", "ew_get"}
  /\ req'[q].w # 0
  /\ req'[q].w # req[q].w
  /\ wallet[req'[q].w].user_id = u

\* C4: while a market order is half applied (its debit written, its credit
\* not yet written) no other request reads a wallet of the order's user.
C4_OrderAtomic ==
  [][\A p \in Procs : \A q \in Procs \ {p} :
       HalfApplied(p) => ~ReadsWalletOf(q, req[p].au)]_vars

\* C6: once opposite transfers of equal amounts between two users (each a
\* p2p_deal and the p2p_release of its trade, four requests in all) have
\* completed, both balances are what they were at the start.
C6_OppositeTransfers ==
  (/\ Quiescent
   /\ nreq = 4
   /\ Len(p2ptrade) = 2
   /\ \A t \in 1..2 : p2ptrade[t].status = "released"
   /\ p2ptrade[1].seller_id # p2ptrade[1].buyer_id
   /\ p2ptrade[1].seller_id = p2ptrade[2].buyer_id
   /\ p2ptrade[1].buyer_id = p2ptrade[2].seller_id
   /\ p2ptrade[1].amount = p2ptrade[2].amount)
  => (Balance(1, "BTC") = InitBal /\ Balance(2, "BTC") = InitBal)

\* C5: after a deal and the release of its trade, with nothing else touching
\* the two wallets, the seller's and the buyer's balances of the traded asset
\* add up to what they added up to before the deal.
C5_EscrowConserves ==
  \A t \in 1..Len(p2ptrade) :
    p2ptrade[t].status = "released"
    => Balance(p2ptrade[t].seller_id, p2ptrade[t].asset)
         + Balance(p2ptrade[t].buyer_id, p2ptrade[t].asset) = InitBal + InitBal

\* A released trade of a buy offer; and one whose buyer is its seller.
C5_Witness ==
  /\ \E t \in 1..Len(p2ptrade) :
       /\ p2ptrade[t].status = "released"
       /\ p2poffer[p2ptrade[t].offer_id].side = "buy"
       /\ p2ptrade[t].amount > 0
       /\ p2ptrade[t].seller_id # p2ptrade[t].buyer_id
       /\ Balance(p2ptrade[t].buyer_id, p2ptrade[t].asset) = InitBal + p2ptrade[t].amount

WalletsOf(u) == {i \in 1..Len(wallet) : wallet[i].user_id = u}

\* C8: between requests, every registered user has exactly one wallet per
\* supported asset; before any deposit the balances are 0; after the deposit
\* of d > 0 the balance is d; after the withdraw request of w > 0 the
\* withdrawal is pending and the balance still d; once it is sent the balance
\* is d - w.
C8_EndToEnd ==
  Quiescent =>
    \A u \in 1..Len(user) :
      LET dep == deposit # << >> /\ deposit[1].user_id = u
          wok == withdrawal = << >> \/ withdrawal[1].amount > 0
      IN  /\ Cardinality(WalletsOf(u)) = Len(ASSETS)
          /\ \A a \in AssetSet : get_wallet(u, a) # 0
          /\ (~dep /\ wok) => \A a \in AssetSet : Balance(u, a) = 0
          /\ (dep /\ deposit[1].amount > 0 /\ withdrawal = << >>)
               => Balance(u, deposit[1].asset) = deposit[1].amount
          /\ (dep /\ deposit[1].amount > 0 /\ withdrawal # << >> /\ withdrawal[1].amount > 0)
               => /\ withdrawal[1].user_id = u
                  /\ withdrawal[1].asset = deposit[1].asset
                  /\ withdrawal[1].amount <= deposit[1].amount
                  /\ withdrawal[1].status \in {"pending", "rejected"}
                       => Balance(u, deposit[1].asset) = deposit[1].amount
                  /\ withdrawal[1].status \notin {"pending", "rejected"}
                       => /\ withdrawal[1].status = "sent"
                          /\ Balance(u, deposit[1].asset)
                               = deposit[1].amount - withdrawal[1].amount

\* The registered user deposited 20, asked for 10, and the withdrawal was sent.
C8_Witness ==
  /\ Quiescent
  /\ Len(user) = 2
  /\ deposit # << >> /\ deposit[1].user_id = 2 /\ deposit[1].amount = 20
  /\ withdrawal # << >> /\ withdrawal[1].amount = 10 /\ withdrawal[1].status = "sent"
  /\ Balance(2, deposit[1].asset) = 10

\* C11: a p2p_release request goes on to credit the buyer and mark the trade
\* released only when the trade exists, is in escrow and the caller is its
\* seller; otherwise it fails at once (400 for a missing or non-escrow trade,
\* 403 for another caller) and writes nothing.  The request that goes on
\* credits the trade's amount to the buyer's wallet of the trade's asset and
\* then sets the status to released.
C11_ReleaseAuthorized ==
  [][\A p \in Procs :
       /\ (Steps(p) /\ req[p].pc = "idle" /\ req'[p].op = "p2p_release") =>
            LET t == req'[p].id
                found == t \in 1..Len(p2ptrade)
                ok == found /\ p2ptrade[t].status = "escrow"
                            /\ p2ptrade[t].seller_id = req'[p].au
            IN  /\ db' = db
                /\ ok => req'[p].pc = "rel_get"
                /\ ~ok => /\ req'[p].pc = "done"
                          /\ req'[p].resp =
                               IF found /\ p2ptrade[t].status = "escrow"
                               THEN "403 Only seller can release" ELSE "400 Invalid trade"
       /\ (Steps(p) /\ req[p].pc = "rel_credit") =>
            LET t == p2ptrade[req[p].id]
                w == get_wallet(t.buyer_id, t.asset)
            IN  /\ t.status = "escrow" /\ t.seller_id = req[p].au
                /\ wallet' = update_balance(wallet, w, wallet[w].balance + t.amount)
                /\ p2ptrade' = p2ptrade
       /\ (Steps(p) /\ req[p].pc = "rel_status") =>
            /\ p2ptrade[req[p].id].status = "escrow"
            /\ p2ptrade'[req[p].id].status = "released"
            /\ wallet' = wallet
       /\ (wallet' # wallet \/ p2ptrade' # p2ptrade) =>
            \E q \in Procs : Steps(q) /\ req[q].op \in {"p2p_deal", "p2p_release"}
                               /\ req[q].resp = ""]_vars

\* A trade between two users was released by its seller, and a later release
\* of the same trade has failed.
C11_Witness ==
  \E p \in Procs :
       /\ req[p].op = "p2p_release" /\ req[p].resp = "400 Invalid trade"
       /\ req[p].id \in 1..Len(p2ptrade)
       /\ p2ptrade[req[p].id].status = "released"
       /\ p2ptrade[req[p].id].seller_id # p2ptrade[req[p].id].buyer_id
       /\ p2ptrade[req[p].id].amount > 0
       /\ Balance(p2ptrade[req[p].id].buyer_id, p2ptrade[req[p].id].asset)
            = InitBal + p2ptrade[req[p].id].amount

WalletsFor(coll, u, a) ==
  {i \in 1..Len(coll) : coll[i].user_id = u /\ coll[i].asset = a}

OneWalletPerAsset(coll, u) ==
  \A a \in AssetSet : Cardinality(WalletsFor(coll, u, a)) = 1

\* C13: with ensure_wallets calls run one after the other, a call that
\* returns leaves its user with exactly one wallet per supported asset, and no
\* step of a call for a user who already has them writes the wallet
\* collection (no record created, no balance or address changed), whatever
\* the balances have become since the first call.
C13_EnsureIdempotent ==
  [][\A p \in Procs :
       /\ (Steps(p) /\ req'[p].op = "ensure_wallets"
             /\ OneWalletPerAsset(wallet, req'[p].au)) => wallet' = wallet
       /\ (Steps(p) /\ req[p].op = "ensure_wallets" /\ req'[p].pc = "done")
            => OneWalletPerAsset(wallet', req[p].au)]_vars

\* A second call for user 2 has returned after a deposit changed a balance
\* the first call had provisioned.
C13_Witness ==
  \E p \in Procs :
    /\ req[p].op = "ensure_wallets" /\ req[p].pc = "done" /\ req[p].au = 2
    /\ Len(wallet) = 2 * Len(ASSETS)
    /\ Balance(2, "BTC") = 10
    /\ Balance(2, "ETH") = 0

\* C14: no two wallet records share (user_id, asset).
C14_NoDuplicateWallets ==
  \A u \in 1..Len(user) : \A a \in AssetSet :
    Cardinality(WalletsFor(wallet, u, a)) <= 1

\* C15: a redeem request for the caller's accruing subscription is let
\* through whatever time has elapsed (lock_days is not consulted), and its
\* credit pays principal + reward with reward = amount * (apy / 100) *
\* (days / 365), days the whole days since start_date: 110 for a principal of
\* 100 at apy 10 after 365 whole days, the principal alone after 0 days.
C15_RedeemReward ==
  [][\A p \in Procs :
       /\ (Steps(p) /\ req[p].pc = "idle" /\ req'[p].op = "redeem"
             /\ req'[p].id \in 1..Len(earnsubscription)
             /\ earnsubscription[req'[p].id].user_id = req'[p].au
             /\ earnsubscription[req'[p].id].status = "accruing")
            => req'[p].pc = "red_prod"
       /\ (Steps(p) /\ req[p].pc = "red_credit") =>
            LET s == earnsubscription[req[p].id]
                pr == earnproduct[s.product_id]
                days == (now - s.start_date) \div DayTicks
                w == get_wallet(s.user_id, pr.asset)
                paid == wallet'[w].balance - wallet[w].balance
            IN  /\ (paid - s.amount) * 100 * 365 = s.amount * pr.apy * days
                /\ (s.amount = 100 /\ pr.apy = 10 /\ days = 365) => paid = 110
                /\ days = 0 => paid = s.amount]_vars

\* One subscription of 100 was redeemed on day 0, inside the lock of 30 days,
\* and another after 365 days and a half: the balance is 100 + 10.
C15_Witness ==
  /\ Quiescent
  /\ \E a \in 1..Len(earnsubscription), b \in 1..Len(earnsubscription) :
       /\ earnsubscription[a].status = "redeemed"
       /\ earnsubscription[a].end_date = 0
       /\ earnsubscription[b].status = "redeemed"
       /\ earnsubscription[b].end_date = 365 * DayTicks + 1
       /\ earnsubscription[a].user_id = 1 /\ earnsubscription[b].user_id = 1
       /\ earnsubscription[a].amount = 100 /\ earnsubscription[b].amount = 100
  /\ Balance(1, "BTC") = 110

\* C16: a subscription is paid out at most once: when a redeem request
\* writes its credit, the subscription is still accruing and no other redeem
\* request has already credited it; and when it writes the status, the
\* status goes from accruing to redeemed.
C16_RedeemedOnce ==
  [][\A p \in Procs :
       /\ (Steps(p) /\ req[p].pc = "red_credit") =>
            /\ earnsubscription[req[p].id].status = "accruing"
            /\ \A q \in Procs \ {p} :
                 ~(req[q].op = "redeem" /\ req[q].id = req[p].id
                     /\ req[q].pc = "red_status")
       /\ (Steps(p) /\ req[p].pc = "red_status") =>
            earnsubscription[req[p].id].status = "accruing"]_vars

\* C17: a price-list request never fails: it ends with 200, with one entry
\* for every pair of PAIRS, in order; an entry is null exactly when the feed
\* lookup for its pair failed and carries the quoted price otherwise.
C17_PricesPartial ==
  \A p \in Procs :
    req[p].op = "prices" =>
      /\ req[p].pc \in {"pr_get", "done"}
      /\ req[p].pc = "done" => (req[p].resp = "200" /\ Len(req[p].out) = Len(PAIRS))
      /\ req[p].pc = "pr_get" => Len(req[p].out) = req[p].k - 1
      /\ Len(req[p].feed) = Len(req[p].out)
      /\ \A k \in 1..Len(req[p].out) :
           /\ req[p].out[k].pair = PAIRS[k]
           /\ req[p].out[k].null = ~req[p].feed[k].ok
           /\ req[p].feed[k].ok => req[p].out[k].price = req[p].feed[k].price

\* The lookup of the first pair failed and the second answered 2.
C17_Witness ==
  \E p \in Procs :
    /\ req[p].op = "prices" /\ req[p].pc = "done" /\ req[p].resp = "200"
    /\ req[p].out[1].null
    /\ ~req[p].out[2].null /\ req[p].out[2].price = 2

\* C18: a trade is created in escrow and its status only ever changes from
\* escrow to released: a released trade stays released, no trade is ever
\* cancelled, and a trade's fields other than its status never change.  The
\* only steps that write a wallet are a deal's debit of the seller and a
\* release's credit of the trade's buyer, so a trade that is not released
\* stays in escrow with its amount out of the seller's wallet.
C18_EscrowThenReleased ==
  [][/\ Len(p2ptrade') >= Len(p2ptrade)
     /\ \A t \in 1..Len(p2ptrade') :
          /\ p2ptrade'[t].status \in {"escrow", "released"}
          /\ t > Len(p2ptrade) => p2ptrade'[t].status = "escrow"
          /\ t <= Len(p2ptrade) =>
               /\ [p2ptrade'[t] EXCEPT !.status = "x"] = [p2ptrade[t] EXCEPT !.status = "x"]
               /\ p2ptrade[t].status = "released" => p2ptrade'[t].status = "released"
               /\ p2ptrade'[t].status # p2ptrade[t].status =>
                    \E p \in Procs : Steps(p) /\ req[p].pc = "rel_status" /\ req[p].id = t
     /\ wallet' # wallet =>
          \E p \in Procs :
            /\ Steps(p)
            /\ \/ req[p].pc = "deal_debit" /\ wallet[req[p].w].user_id = req[p].seller
               \/ /\ req[p].pc = "rel_credit"
                  /\ wallet[req[p].w].user_id = p2ptrade[req[p].id].buyer_id]_vars

\* A trade between two users has been released while another is still in
\* escrow, its amount out of its seller's wallet.
C18_Witness ==
  \E a \in 1..Len(p2ptrade), b \in 1..Len(p2ptrade) :
    /\ p2ptrade[a].status = "released"
    /\ p2ptrade[b].status = "escrow"
    /\ p2ptrade[a].seller_id # p2ptrade[a].buyer_id
    /\ p2ptrade[b].seller_id # p2ptrade[b].buyer_id
    /\ p2ptrade[a].seller_id = p2ptrade[b].buyer_id
    /\ p2ptrade[a].amount = 10 /\ p2ptrade[b].amount = 10
    /\ Balance(p2ptrade[a].seller_id, "BTC") = InitBal - 10
    /\ Balance(p2ptrade[b].seller_id, "BTC") = InitBal + 10 - 10
    /\ Quiescent

\* C19: the buyer of a trade is credited with its amount at most once: once
\* all requests have completed and one trade has been opened, between two
\* users, the buyer's balance is at most the initial balance plus the trade's
\* amount - no more has been credited than the deal debited from the seller.
\* Stated for a trade of a positive amount.
C19_ReleaseCreditsOnce ==
  (/\ Quiescent
   /\ Len(p2ptrade) = 1
   /\ p2ptrade[1].amount > 0
   /\ p2ptrade[1].seller_id # p2ptrade[1].buyer_id)
  => Balance(p2ptrade[1].buyer_id, p2ptrade[1].asset) <= InitBal + p2ptrade[1].amount

\* C20: a withdrawal's amount is debited from its user's wallet at most once:
\* with approvals of the one withdrawal as the only requests, the balance
\* never falls below the initial balance minus the withdrawal's amount.
C20_ApprovalDebitsOnce ==
  \A i \in 1..Len(withdrawal) :
    Balance(withdrawal[i].user_id, withdrawal[i].asset)
      >= InitBal + InitBal - withdrawal[i].amount

\* C21: a withdrawal's status changes only from pending, and only to sent or
\* rejected: a sent or rejected withdrawal keeps its status.
C21_StatusFromPending ==
  [][\A i \in 1..Len(withdrawal) :
       withdrawal'[i].status # withdrawal[i].status =>
         /\ withdrawal[i].status = "pending"
         /\ withdrawal'[i].status \in {"sent", "rejected"}]_vars

\* C22: no two user records carry the same email.
C22_OneUserPerEmail ==
  \A i \in 1..Len(user) : \A j \in 1..Len(user) :
    user[i].email = user[j].email => i = j
====
